---- MODULE Spec2Model ----
(***************************************************************************)
(* Model of src/clean_and_describe.py: the batch pipeline                   *)
(*   load_data -> basic_clean -> feature_engineering -> compute_kpis ->     *)
(*   describe_data -> aggregates -> mkdir -> charts -> save_artifacts.      *)
(*                                                                         *)
(* Text is a sequence of one-character strings, so that stripping,          *)
(* lower-casing, number parsing, date parsing and date formatting are       *)
(* computed rather than assumed.  A cell of a table is a record             *)
(*   [k, n, d, s]  with k in {"nan","num","inf","text","date"}:             *)
(*   "nan"  null (NaN / NaT),                                               *)
(*   "num"  the rational n/d in lowest terms, d > 0 (inputs are integers),  *)
(*   "inf"  +-infinity (sign n), what float division by zero produces,      *)
(*   "text" the string s,                                                   *)
(*   "date" the calendar day n = year*10000 + month*100 + day.              *)
(***************************************************************************)
EXTENDS Integers, Sequences, FiniteSets, TLC

VARIABLES file, pc, err, content_read, df, kpis, desc, group_tables,
          monthly_sales, top_products, dir_created, written

vars == <<file, pc, err, content_read, df, kpis, desc, group_tables,
          monthly_sales, top_products, dir_created, written>>

(***************************************************************************)
(* Bounds of the model                                                      *)
(***************************************************************************)
\* most rows of a file built from the row pool
MaxRows == 2
\* most rows of a generated product file
MaxBigRows == 12

(***************************************************************************)
(* Cells                                                                    *)
(***************************************************************************)
NaN == [k |-> "nan", n |-> 0, d |-> 1, s |-> <<>>]
Num(v) == [k |-> "num", n |-> v, d |-> 1, s |-> <<>>]
Inf(sign) == [k |-> "inf", n |-> sign, d |-> 1, s |-> <<>>]
Text(cs) == [k |-> "text", n |-> 0, d |-> 1, s |-> cs]
Date(ymd) == [k |-> "date", n |-> ymd, d |-> 1, s |-> <<>>]

IsNull(c) == c.k = "nan"

Abs(x) == IF x < 0 THEN -x ELSE x

RECURSIVE Gcd(_, _)
Gcd(a, b) == IF b = 0 THEN a ELSE Gcd(b, a % b)

\* the rational p/q (q # 0) in lowest terms with a positive denominator
Rat(p, q) ==
    LET g == Gcd(Abs(p), Abs(q))
        sg == IF q < 0 THEN -1 ELSE 1
    IN  [k |-> "num", n |-> sg * (p \div g), d |-> sg * (q \div g), s |-> <<>>]

\* float division of two integers as numpy computes it: a zero divisor gives
\* +-inf, and NaN for 0/0, without raising
TrueDiv(p, q) ==
    IF q # 0 THEN Rat(p, q)
    ELSE IF p > 0 THEN Inf(1)
    ELSE IF p < 0 THEN Inf(-1)
    ELSE NaN

(***************************************************************************)
(* Text                                                                     *)
(***************************************************************************)
Digits == <<"0", "1", "2", "3", "4", "5", "6", "7", "8", "9">>

IsDigit(c) == \E i \in 1..Len(Digits) : Digits[i] = c

DigitVal(c) == (CHOOSE i \in 1..Len(Digits) : Digits[i] = c) - 1

UpperCase == <<"C", "S", "V", "X", "L", "T">>
LowerCase == <<"c", "s", "v", "x", "l", "t">>

LowerChar(c) ==
    IF \E i \in 1..Len(UpperCase) : UpperCase[i] = c
    THEN LowerCase[CHOOSE i \in 1..Len(UpperCase) : UpperCase[i] = c]
    ELSE c

\* str.lower()
Lower(cs) == [i \in 1..Len(cs) |-> LowerChar(cs[i])]

RECURSIVE LStrip(_)
LStrip(cs) == IF Len(cs) > 0 /\ Head(cs) = " " THEN LStrip(Tail(cs)) ELSE cs

RECURSIVE RStrip(_)
RStrip(cs) ==
    IF Len(cs) > 0 /\ cs[Len(cs)] = " "
    THEN RStrip(SubSeq(cs, 1, Len(cs) - 1))
    ELSE cs

\* str.strip()
Strip(cs) == RStrip(LStrip(cs))

RECURSIVE DigitsValue(_)
DigitsValue(cs) ==
    IF Len(cs) = 0 THEN 0
    ELSE DigitsValue(SubSeq(cs, 1, Len(cs) - 1)) * Len(Digits) + DigitVal(cs[Len(cs)])

AllDigits(cs) == Len(cs) > 0 /\ \A i \in 1..Len(cs) : IsDigit(cs[i])

\* a decimal integer with an optional sign parses; anything else does not
IsNumberText(cs) ==
    IF Len(cs) > 0 /\ Head(cs) = "-" THEN AllDigits(Tail(cs)) ELSE AllDigits(cs)

NumberValue(cs) ==
    IF Head(cs) = "-" THEN -DigitsValue(Tail(cs)) ELSE DigitsValue(cs)

IsLeap(y) == (y % 4 = 0 /\ y % 100 # 0) \/ y % 400 = 0

DaysInMonth(y, m) ==
    IF m = 2 THEN (IF IsLeap(y) THEN 29 ELSE 28)
    ELSE IF m \in {4, 6, 9, 11} THEN 30 ELSE 31

\* "YYYY-MM-DD" naming a day of the calendar
IsDateText(cs) ==
    /\ Len(cs) = 10
    /\ cs[5] = "-" /\ cs[8] = "-"
    /\ \A i \in {1, 2, 3, 4, 6, 7, 9, 10} : IsDigit(cs[i])
    /\ LET y == DigitsValue(SubSeq(cs, 1, 4))
           m == DigitsValue(SubSeq(cs, 6, 7))
           dd == DigitsValue(SubSeq(cs, 9, 10))
       IN  m \in 1..12 /\ dd \in 1..DaysInMonth(y, m)

DateValue(cs) ==
    DigitsValue(SubSeq(cs, 1, 4)) * 10000
    + DigitsValue(SubSeq(cs, 6, 7)) * 100
    + DigitsValue(SubSeq(cs, 9, 10))

YearOf(ymd) == ymd \div 10000
MonthOf(ymd) == (ymd \div 100) % 100
DayOf(ymd) == ymd % 100

\* the decimal digits of v >= 0, zero-padded to width w
RECURSIVE Pad(_, _)
Pad(v, w) ==
    IF w = 0 THEN <<>>
    ELSE Append(Pad(v \div Len(Digits), w - 1), Digits[(v % Len(Digits)) + 1])

\* Timestamp.strftime("%Y-%m-%d")
FormatDate(ymd) ==
    Pad(YearOf(ymd), 4) \o <<"-">> \o Pad(MonthOf(ymd), 2) \o <<"-">> \o Pad(DayOf(ymd), 2)

\* days since 1970-01-01 of a calendar day (proleptic Gregorian)
DayNumber(ymd) ==
    LET y == IF MonthOf(ymd) <= 2 THEN YearOf(ymd) - 1 ELSE YearOf(ymd)
        era == y \div 400
        yoe == y - era * 400
        mp == (MonthOf(ymd) + 9) % 12
        doy == (153 * mp + 2) \div 5 + DayOf(ymd) - 1
        doe == yoe * 365 + yoe \div 4 - yoe \div 100 + doy
    IN  era * 146097 + doe - 719468

(***************************************************************************)
(* Tables                                                                   *)
(* A column label is [name, pad]: pad says that the label as written in the *)
(* file carries surrounding white space.  A table is                        *)
(* [cols, dtype, rows]: the labels, the dtype of each column ("object",     *)
(* "number" or "datetime") and the rows, each a function from the labels to *)
(* cells.                                                                   *)
(***************************************************************************)
Col(name) == [name |-> name, pad |-> FALSE]

ORDER_DATE == Col("Order Date")
SHIP_DATE == Col("Ship Date")
SALES == Col("Sales")
PROFIT == Col("Profit")
PRODUCT_NAME == Col("Product Name")
ORDER_YEAR == Col("OrderYear")
ORDER_MONTH == Col("OrderMonth")
SHIP_DELAY_DAYS == Col("ShipDelayDays")
PROFIT_MARGIN == Col("ProfitMargin")

\* the grouping dimensions of aggregates and the names of their tables
Dims == {"Category", "Sub-Category", "Region", "State"}

GroupName(dim) ==
    CASE dim = "Category" -> "by_category"
      [] dim = "Sub-Category" -> "by_subcategory"
      [] dim = "Region" -> "by_region"
      [] dim = "State" -> "by_state"

\* the columns basic_clean coerces to numbers
NumericNames == {"Sales", "Profit", "Discount", "Quantity", "Postal Code"}

\* the columns a row must not miss
Essential == <<"Order Date", "Sales", "Profit">>

\* the column names of the modelled files that contain "date" in any case
DateNames == {"Order Date", "Ship Date"}

Range(f) == {f[x] : x \in DOMAIN f}

(***************************************************************************)
(* load_data                                                                *)
(* A file is [exists, suffix, sheet, header, rows]: rows hold the fields as *)
(* text, an empty field being a missing value; sheet is the name of the one *)
(* sheet of a workbook.                                                     *)
(***************************************************************************)
ColumnIsNumeric(f, l) ==
    /\ Len(f.rows) > 0
    /\ \A i \in 1..Len(f.rows) : f.rows[i][l] = <<>> \/ IsNumberText(f.rows[i][l])

\* the parser's type inference: a column whose fields all parse as numbers (or
\* are empty) is numeric, any other column holds its fields as text; the
\* columns of a file without rows are of dtype object
ReadField(f, l, cs) ==
    IF cs = <<>> THEN NaN
    ELSE IF ColumnIsNumeric(f, l) THEN Num(NumberValue(cs))
    ELSE Text(cs)

ReadTable(f) ==
    [cols |-> f.header,
     dtype |-> [l \in f.header |-> IF ColumnIsNumeric(f, l) THEN "number" ELSE "object"],
     rows |-> [i \in 1..Len(f.rows) |->
                  [l \in f.header |-> ReadField(f, l, f.rows[i][l])]]]

\* pd.read_excel(path, sheet_name=name), name "" standing for the default
\* (first) sheet: [raised, table]
ReadSheet(f, name) ==
    IF name # "" /\ f.sheet # name
    THEN [raised |-> TRUE, table |-> [cols |-> {}, dtype |-> <<>>, rows |-> <<>>]]
    ELSE [raised |-> FALSE, table |-> ReadTable(f)]

\* try read_excel(path, sheet_name="Orders") except: read_excel(path)
ReadExcel(f) ==
    IF ReadSheet(f, "Orders").raised
    THEN ReadSheet(f, "").table
    ELSE ReadSheet(f, "Orders").table

CSV == <<".", "c", "s", "v">>
XLSX == <<".", "x", "l", "s", "x">>
XLS == <<".", "x", "l", "s">>

\* the exceptions of the pipeline
NotFound == "FileNotFoundError: Input file not found"
Unsupported == "ValueError: Unsupported file type"
NoColumns == "ValueError: Cannot describe a DataFrame without columns"
NoMode == "IndexError: single positional indexer is out-of-bounds"
NoBars == "IndexError: index 0 is out of bounds for axis 0 with size 0"

\* load_data reading a file of any other extension as CSV
load_data_AnySuffix(f) ==
    IF ~f.exists
    THEN [error |-> NotFound, read |-> FALSE,
          table |-> [cols |-> {}, dtype |-> <<>>, rows |-> <<>>]]
    ELSE IF Lower(f.suffix) \in {XLSX, XLS}
    THEN [error |-> "", read |-> TRUE, table |-> ReadExcel(f)]
    ELSE [error |-> "", read |-> TRUE, table |-> ReadTable(f)]

\* [error, read, table]: the exception raised ("" for none), whether the
\* file's content was read, and the table returned
NoTable == [cols |-> {}, dtype |-> <<>>, rows |-> <<>>]

load_data(f) ==
    IF ~f.exists
    THEN [error |-> NotFound, read |-> FALSE, table |-> NoTable]
    ELSE IF Lower(f.suffix) = CSV
    THEN [error |-> "", read |-> TRUE, table |-> ReadTable(f)]
    ELSE IF Lower(f.suffix) \in {XLSX, XLS}
    THEN [error |-> "", read |-> TRUE, table |-> ReadExcel(f)]
    ELSE [error |-> Unsupported, read |-> FALSE, table |-> NoTable]

(***************************************************************************)
(* basic_clean                                                              *)
(***************************************************************************)
\* str(c).strip() of a label
StripLabel(l) == [name |-> l.name, pad |-> FALSE]

StripColumns(t) ==
    LET Orig(c) == CHOOSE l \in t.cols : StripLabel(l) = c
        cols == {StripLabel(l) : l \in t.cols}
    IN  [cols |-> cols,
         dtype |-> [c \in cols |-> t.dtype[Orig(c)]],
         rows |-> [i \in 1..Len(t.rows) |-> [c \in cols |-> t.rows[i][Orig(c)]]]]

\* pd.to_datetime(errors="coerce") of a cell of text, of a date or of nothing
ToDatetime(c) ==
    IF c.k = "date" THEN c
    ELSE IF c.k = "text" /\ IsDateText(c.s) THEN Date(DateValue(c.s))
    ELSE NaN

\* pd.to_numeric(errors="coerce")
ToNumeric(c) ==
    IF c.k \in {"num", "inf"} THEN c
    ELSE IF c.k = "text" /\ IsNumberText(c.s) THEN Num(NumberValue(c.s))
    ELSE NaN

\* stripping that leaves a missing value missing
ToStripped_KeepNull(c) == IF c.k = "text" THEN Text(Strip(c.s)) ELSE c

\* astype(str).str.strip() in a column of dtype object: a missing value
\* becomes the text "nan"
ToStripped(c) ==
    IF c.k = "text" THEN Text(Strip(c.s))
    ELSE IF c.k = "nan" THEN Text(<<"n", "a", "n">>)
    ELSE c

\* the conversion of a cell to the dtype ty
Convert(ty, c) ==
    CASE ty = "datetime" -> ToDatetime(c)
      [] ty = "number" -> ToNumeric(c)
      [] ty = "object" -> ToStripped(c)

\* df[c] = <conversion of df[c]> for the columns cs
MapCells(t, cs, ty) ==
    [cols |-> t.cols,
     dtype |-> [c \in t.cols |-> IF c \in cs THEN ty ELSE t.dtype[c]],
     rows |-> [i \in 1..Len(t.rows) |->
                  [c \in t.cols |->
                      IF c \in cs THEN Convert(ty, t.rows[i][c]) ELSE t.rows[i][c]]]]

CoerceDates(t) ==
    MapCells(t, {c \in t.cols : c.name \in DateNames}, "datetime")

CoerceNumerics(t) ==
    MapCells(t, {Col(n) : n \in NumericNames} \cap t.cols, "number")

CleanStrings(t) ==
    MapCells(t, {c \in t.cols : t.dtype[c] = "object"}, "object")

\* DataFrame.drop_duplicates(): the first of equal rows is kept
RECURSIVE Dedup(_)
Dedup(rows) ==
    IF Len(rows) = 0 THEN <<>>
    ELSE LET init == Dedup(SubSeq(rows, 1, Len(rows) - 1))
             last == rows[Len(rows)]
         IN  IF last \in Range(init) THEN init ELSE Append(init, last)

DropDuplicates(t) == [t EXCEPT !.rows = Dedup(t.rows)]

EssentialCols(t) == {Col(Essential[i]) : i \in 1..Len(Essential)} \cap t.cols

\* DataFrame.dropna(subset=essential) when essential is not empty
DropMissing(t) ==
    LET essential == EssentialCols(t)
        Keep(r) == \A c \in essential : ~IsNull(r[c])
    IN  IF essential # {} THEN [t EXCEPT !.rows = SelectSeq(t.rows, Keep)] ELSE t

Coerced(t) == CleanStrings(CoerceNumerics(CoerceDates(StripColumns(t))))

\* the cleaner with the rows filtered before the values are coerced
basic_clean_FilterFirst(t) == DropDuplicates(Coerced(DropMissing(StripColumns(t))))

\* the cleaner with the duplicates removed before the values are coerced
basic_clean_DedupFirst(t) == DropMissing(Coerced(DropDuplicates(StripColumns(t))))

basic_clean(t) == DropMissing(DropDuplicates(Coerced(t)))

(***************************************************************************)
(* feature_engineering                                                      *)
(***************************************************************************)
\* df[c] = cells, a cell for each row
AddColumn(t, c, ty, cells) ==
    [cols |-> t.cols \cup {c},
     dtype |-> [x \in t.cols \cup {c} |-> IF x = c THEN ty ELSE t.dtype[x]],
     rows |-> [i \in 1..Len(t.rows) |->
                  [x \in t.cols \cup {c} |-> IF x = c THEN cells[i] ELSE t.rows[i][x]]]]

\* Series / Series of numbers, null where either side is null
CellDiv(p, q) ==
    IF p.k # "num" \/ q.k # "num" THEN NaN ELSE TrueDiv(p.n, q.n)

\* the test Sales != 0: true of every value but zero, null included
NotZero(c) == ~(c.k = "num" /\ c.n = 0)

\* the margin without the test for zero
ProfitMargin_Unguarded(p, q) == CellDiv(p, q)

\* np.where(Sales != 0, Profit / Sales, np.nan); both branches are evaluated
\* and the condition selects
ProfitMargin(p, q) == IF NotZero(q) THEN CellDiv(p, q) ELSE NaN

OrderYear(r) ==
    IF r[ORDER_DATE].k = "date" THEN Num(YearOf(r[ORDER_DATE].n)) ELSE NaN

\* dt.to_period("M").dt.to_timestamp(): the first day of the month
OrderMonth(r) ==
    IF r[ORDER_DATE].k = "date"
    THEN Date((r[ORDER_DATE].n \div 100) * 100 + 1)
    ELSE NaN

ShipDelayDays(r) ==
    IF r[ORDER_DATE].k = "date" /\ r[SHIP_DATE].k = "date"
    THEN Num(DayNumber(r[SHIP_DATE].n) - DayNumber(r[ORDER_DATE].n))
    ELSE NaN

RowMargin(r) == ProfitMargin(r[PROFIT], r[SALES])

WithOrderColumns(t) ==
    IF ORDER_DATE \in t.cols
    THEN AddColumn(AddColumn(t, ORDER_YEAR, "number",
                             [i \in 1..Len(t.rows) |-> OrderYear(t.rows[i])]),
                   ORDER_MONTH, "datetime",
                   [i \in 1..Len(t.rows) |-> OrderMonth(t.rows[i])])
    ELSE t

WithShipDelay(t) ==
    IF {ORDER_DATE, SHIP_DATE} \subseteq t.cols
    THEN AddColumn(t, SHIP_DELAY_DAYS, "number",
                   [i \in 1..Len(t.rows) |-> ShipDelayDays(t.rows[i])])
    ELSE t

WithProfitMargin(t) ==
    IF {SALES, PROFIT} \subseteq t.cols
    THEN AddColumn(t, PROFIT_MARGIN, "number",
                   [i \in 1..Len(t.rows) |-> RowMargin(t.rows[i])])
    ELSE t

feature_engineering(t) == WithProfitMargin(WithShipDelay(WithOrderColumns(t)))

(***************************************************************************)
(* compute_kpis                                                             *)
(***************************************************************************)
\* Series.sum(): the sum of the values that are not null, 0 for none
RECURSIVE SumCol(_, _)
SumCol(rows, c) ==
    IF Len(rows) = 0 THEN 0
    ELSE SumCol(Tail(rows), c) + (IF Head(rows)[c].k = "num" THEN Head(rows)[c].n ELSE 0)

NotNull(rows, c) == {rows[i][c] : i \in 1..Len(rows)} \ {NaN}

MinDate(rows, c) ==
    CHOOSE x \in NotNull(rows, c) : \A y \in NotNull(rows, c) : x.n <= y.n

MaxDate(rows, c) ==
    CHOOSE x \in NotNull(rows, c) : \A y \in NotNull(rows, c) : x.n >= y.n

\* the keys without the test of the Sales total
KpiKeys_NoZeroCheck(t) ==
    (IF SALES \in t.cols THEN {"total_sales"} ELSE {})
    \cup (IF PROFIT \in t.cols THEN {"total_profit"} ELSE {})
    \cup (IF {SALES, PROFIT} \subseteq t.cols THEN {"overall_profit_margin"} ELSE {})
    \cup (IF ORDER_DATE \in t.cols /\ NotNull(t.rows, ORDER_DATE) # {}
          THEN {"date_range"} ELSE {})

KpiKeys(t) ==
    (IF SALES \in t.cols THEN {"total_sales"} ELSE {})
    \cup (IF PROFIT \in t.cols THEN {"total_profit"} ELSE {})
    \cup (IF {SALES, PROFIT} \subseteq t.cols /\ SumCol(t.rows, SALES) # 0
          THEN {"overall_profit_margin"} ELSE {})
    \cup (IF ORDER_DATE \in t.cols /\ NotNull(t.rows, ORDER_DATE) # {}
          THEN {"date_range"} ELSE {})

KpiValue(t, key) ==
    CASE key = "total_sales" -> Num(SumCol(t.rows, SALES))
      [] key = "total_profit" -> Num(SumCol(t.rows, PROFIT))
      [] key = "overall_profit_margin" ->
            TrueDiv(SumCol(t.rows, PROFIT), SumCol(t.rows, SALES))
      [] key = "date_range" ->
            [min |-> FormatDate(MinDate(t.rows, ORDER_DATE).n),
             max |-> FormatDate(MaxDate(t.rows, ORDER_DATE).n)]

compute_kpis(t) == [key \in KpiKeys(t) |-> KpiValue(t, key)]

(***************************************************************************)
(* describe_data: of the numeric statistics the count of values is kept, of *)
(* the categorical ones the number of distinct values                       *)
(***************************************************************************)
NumericCols(t) == {c \in t.cols : t.dtype[c] = "number"}

CategoricalCols(t) == t.cols \ NumericCols(t)

\* cat_df.mode() has no row when no categorical column holds a value
ModeIsEmpty(t) == \A c \in CategoricalCols(t) : NotNull(t.rows, c) = {}

\* DataFrame.describe() refuses a frame without columns; mode().iloc[0] of a
\* non-empty cat_df needs a row of modes
describe_data(t) ==
    IF NumericCols(t) = {}
    THEN [error |-> NoColumns, numeric |-> <<>>, categorical |-> <<>>]
    ELSE IF CategoricalCols(t) # {} /\ Len(t.rows) > 0 /\ ModeIsEmpty(t)
    THEN [error |-> NoMode, numeric |-> <<>>, categorical |-> <<>>]
    ELSE [error |-> "",
          numeric |-> [c \in NumericCols(t) |->
                          Cardinality({i \in 1..Len(t.rows) : ~IsNull(t.rows[i][c])})],
          categorical |-> [c \in CategoricalCols(t) |-> Cardinality(NotNull(t.rows, c))]]

(***************************************************************************)
(* aggregates                                                              *)
(* An aggregate table is a sequence of rows [key, Sales, Profit,            *)
(* ProfitMargin].  sort_values does not fix the order of rows with equal    *)
(* Sales, so every order of them is a possible outcome.                     *)
(***************************************************************************)
\* how many rows of the top-products table are kept
TopN == 10

\* groupby(col): the distinct values of the column, null left out
GroupKeys(t, c) == NotNull(t.rows, c)

GroupRow(t, c, key) ==
    LET InGroup(r) == r[c] = key
        members == SelectSeq(t.rows, InGroup)
    IN  [key |-> key,
         Sales |-> Num(SumCol(members, SALES)),
         Profit |-> Num(SumCol(members, PROFIT)),
         ProfitMargin |-> ProfitMargin(Num(SumCol(members, PROFIT)),
                                       Num(SumCol(members, SALES)))]

\* groupby(col)[["Sales", "Profit"]].sum().assign(ProfitMargin=...)
GroupRows(t, c) == {GroupRow(t, c, key) : key \in GroupKeys(t, c)}

\* the sequences that hold each row of rs once, in ascending order of rank
RECURSIVE Orderings(_, _)
Orderings(rs, rank) ==
    IF rs = {} THEN {<<>>}
    ELSE UNION {{<<x>> \o rest : rest \in Orderings(rs \ {x}, rank)} :
                   x \in {y \in rs : \A z \in rs : rank[y] <= rank[z]}}

\* the sort in ascending order
SortBySalesDesc_Ascending(rs) == Orderings(rs, [r \in rs |-> r.Sales.n])

\* sort_values("Sales", ascending=False)
SortBySalesDesc(rs) == Orderings(rs, [r \in rs |-> -r.Sales.n])

\* the possible results of aggr([dim])
aggr(t, c) == SortBySalesDesc(GroupRows(t, c))

\* DataFrame.head(n)
TableHead(rows, n) == SubSeq(rows, 1, IF Len(rows) < n THEN Len(rows) ELSE n)

\* an optional table: None, or the rows
None == [some |-> FALSE, rows |-> <<>>]
Some(rows) == [some |-> TRUE, rows |-> rows]

HasGroup(t, dim) == {Col(dim), SALES, PROFIT} \subseteq t.cols

\* the possible group tables of one dimension
GroupTableChoices(t, dim) ==
    IF HasGroup(t, dim) THEN {Some(rows) : rows \in aggr(t, Col(dim))} ELSE {None}

MonthRow(t, key) ==
    LET InGroup(r) == r[ORDER_MONTH] = key
    IN  [key |-> key, Sales |-> Num(SumCol(SelectSeq(t.rows, InGroup), SALES))]

\* sort_values("OrderMonth")
SortByMonth(rs) == Orderings(rs, [r \in rs |-> r.key.n])

MonthlySalesChoices(t) ==
    IF {ORDER_MONTH, SALES} \subseteq t.cols
    THEN {Some(rows) :
             rows \in SortByMonth({MonthRow(t, key) : key \in GroupKeys(t, ORDER_MONTH)})}
    ELSE {None}

\* the whole per-product aggregation, sorted, before head(10)
ProductTable(t) == aggr(t, PRODUCT_NAME)

\* the first rows taken before the grouping instead of after the sort
TopProductsChoices_HeadFirst(t) ==
    IF {PRODUCT_NAME, SALES, PROFIT} \subseteq t.cols
    THEN {Some(rows) : rows \in aggr([t EXCEPT !.rows = TableHead(t.rows, TopN)], PRODUCT_NAME)}
    ELSE {None}

TopProductsChoices(t) ==
    IF {PRODUCT_NAME, SALES, PROFIT} \subseteq t.cols
    THEN {Some(TableHead(rows, TopN)) : rows \in ProductTable(t)}
    ELSE {None}

\* the dict group_tables: an entry for each dimension that has a table
GroupTables(choice) ==
    [name \in {GroupName(dim) : dim \in {x \in Dims : choice[x].some}} |->
        choice[CHOOSE dim \in Dims : GroupName(dim) = name].rows]

(***************************************************************************)
(* charts and save_artifacts: the files they write                          *)
(***************************************************************************)
IsEmpty(opt) == Len(opt.rows) = 0

ChartFiles(gt, ms) ==
    (IF "by_category" \in DOMAIN gt THEN {"sales_by_category.png"} ELSE {})
    \cup (IF ms.some /\ ~IsEmpty(ms) THEN {"monthly_sales.png"} ELSE {})

\* a bar plot of a series without values may be refused by the plotting
\* library: both outcomes are kept
ChartsMayRaise(gt) == "by_category" \in DOMAIN gt /\ Len(gt["by_category"]) = 0

GroupFile(name) ==
    CASE name = "by_category" -> "group_by_category.csv"
      [] name = "by_subcategory" -> "group_by_subcategory.csv"
      [] name = "by_region" -> "group_by_region.csv"
      [] name = "by_state" -> "group_by_state.csv"

CoreFiles == {"superstore_clean.csv", "desc_numeric.csv", "desc_categorical.csv",
              "kpi_summary.json"}

GroupFiles(gt) == {GroupFile(name) : name \in DOMAIN gt}

\* the monthly CSV written without the test for rows
MonthlyFiles_Unchecked(ms) == IF ms.some THEN {"monthly_sales.csv"} ELSE {}

MonthlyFiles(ms) == IF ms.some /\ ~IsEmpty(ms) THEN {"monthly_sales.csv"} ELSE {}

TopFiles(tp) == IF tp.some /\ ~IsEmpty(tp) THEN {"top10_products.csv"} ELSE {}

SavedFiles(gt, ms, tp) ==
    CoreFiles \cup GroupFiles(gt) \cup MonthlyFiles(ms) \cup TopFiles(tp)
    \cup {"data_dictionary.csv", "README.md"}

(***************************************************************************)
(* The input files of the model                                             *)
(***************************************************************************)
AllNames == {"Order Date", "Ship Date", "Sales", "Profit", "Product Name"} \cup Dims

Row(od, sd, sales, profit, cat, sub, reg, st, prod) ==
    [c \in AllNames |->
        CASE c = "Order Date" -> od
          [] c = "Ship Date" -> sd
          [] c = "Sales" -> sales
          [] c = "Profit" -> profit
          [] c = "Category" -> cat
          [] c = "Sub-Category" -> sub
          [] c = "Region" -> reg
          [] c = "State" -> st
          [] c = "Product Name" -> prod]

Jan05 == <<"2", "0", "2", "3", "-", "0", "1", "-", "0", "5">>
Jan10 == <<"2", "0", "2", "3", "-", "0", "1", "-", "1", "0">>
Jan20 == <<"2", "0", "2", "3", "-", "0", "1", "-", "2", "0">>
Feb10 == <<"2", "0", "2", "3", "-", "0", "2", "-", "1", "0">>
Mar01 == <<"2", "0", "2", "4", "-", "0", "3", "-", "0", "1">>
BadMonth == <<"2", "0", "2", "3", "-", "1", "3", "-", "0", "1">>
Junk == <<"a", "b", "c">>
Missing == <<>>

\* the rows files are built from: valid rows, rows that differ only in white
\* space, a zero Sales, Sales that cancel, unparsable and missing values,
\* a dimension of numeric codes (Region) with a missing code
RowPool ==
    <<Row(Jan05, Jan10, <<"1", "0", "0">>, <<"2", "0">>, <<"A">>, <<"X">>, <<"1">>, <<"S">>, <<"P">>),
      Row(Jan05, Jan10, <<"1", "0", "0">>, <<"2", "0">>, <<" ", "A">>, <<"X", " ">>, <<"1">>, <<"S">>, <<"P", " ">>),
      Row(Jan20, Mar01, <<"5", "0">>, <<"-", "1", "0">>, <<"A">>, Missing, <<"2">>, <<"T">>, <<"Q">>),
      Row(Feb10, Junk, <<"0">>, <<"5">>, <<"B">>, <<"Y">>, Missing, Missing, <<"P">>),
      Row(BadMonth, Missing, <<"-", "5", "0">>, <<"1", "5">>, Missing, <<"X">>, <<"2">>, <<"S">>, <<"Q">>),
      Row(Missing, Jan10, Junk, Missing, <<"B">>, <<"Y">>, Missing, <<"T">>, Missing)>>

\* the sequences of at most n rows of the pool
RECURSIVE PoolSeqs(_)
PoolSeqs(n) ==
    IF n = 0 THEN {<<>>}
    ELSE PoolSeqs(n - 1)
         \cup {Append(q, RowPool[i]) : q \in {x \in PoolSeqs(n - 1) : Len(x) = n - 1},
                                        i \in 1..Len(RowPool)}

EssentialNames == {Essential[i] : i \in 1..Len(Essential)}

SchemaExtras ==
    {{}} \cup {{dim} : dim \in Dims}
    \cup {Dims, {"Product Name"}, {"Ship Date"}, Dims \cup {"Product Name", "Ship Date"}}

\* the headers: every set of essential columns with each set of other columns
Schemas == {e \cup x : e \in SUBSET EssentialNames, x \in SchemaExtras} \ {{}}

MkFile(exists, suffix, sheet, names, pad, rows) ==
    LET header == {[name |-> c, pad |-> pad] : c \in names}
    IN  [exists |-> exists, suffix |-> suffix, sheet |-> sheet, header |-> header,
         rows |-> [i \in 1..Len(rows) |-> [l \in header |-> rows[i][l.name]]]]

CsvFiles ==
    {MkFile(TRUE, CSV, "", names, pad, rows) :
        names \in Schemas, pad \in BOOLEAN, rows \in PoolSeqs(MaxRows)}

Suffixes ==
    {CSV, <<".", "C", "S", "V">>, XLSX, <<".", "X", "L", "S">>, XLS,
     <<".", "t", "x", "t">>, <<".", "T", "X", "T">>, <<>>}

\* paths of every kind, existing or not, and workbooks with and without a
\* sheet named Orders
PathFiles ==
    {MkFile(exists, suffix, sheet, {"Order Date", "Sales", "Profit", "Category"}, FALSE, rows) :
        exists \in BOOLEAN, suffix \in Suffixes, sheet \in {"Orders", "Sheet1"},
        rows \in PoolSeqs(1)}

\* product files: row i sells product 1 + (i-1) % m
ProductSales(kind, i) ==
    CASE kind = "rising" -> i
      [] kind = "falling" -> 50 - 2 * i
      [] kind = "ties" -> (i * 5) % 7

ProductRow(kind, m, i) ==
    Row(Missing, Missing, Pad(ProductSales(kind, i), 2), Pad(i % 4, 1),
        Missing, Missing, Missing, Missing, <<"p">> \o Pad(1 + ((i - 1) % m), 2))

ProductFiles ==
    {MkFile(TRUE, CSV, "", {"Product Name", "Sales", "Profit"}, FALSE,
            [i \in 1..n |-> ProductRow(kind, m, i)]) :
        n \in 0..MaxBigRows, m \in {4, MaxBigRows}, kind \in {"rising", "falling", "ties"}}

Files == CsvFiles \cup PathFiles \cup ProductFiles

(***************************************************************************)
(* main                                                                     *)
(***************************************************************************)
NoDesc == [error |-> "", numeric |-> <<>>, categorical |-> <<>>]

Init ==
    /\ file \in Files
    /\ pc = "start"
    /\ err = ""
    /\ content_read = FALSE
    /\ df = NoTable
    /\ kpis = <<>>
    /\ desc = NoDesc
    /\ group_tables = <<>>
    /\ monthly_sales = None
    /\ top_products = None
    /\ dir_created = FALSE
    /\ written = {}

\* df_raw = load_data(input_path)
Load ==
    /\ pc = "start"
    /\ LET r == load_data(file)
       IN  /\ content_read' = r.read
           /\ df' = r.table
           /\ err' = r.error
           /\ pc' = IF r.error # "" THEN "failed" ELSE "loaded"
    /\ UNCHANGED <<file, kpis, desc, group_tables, monthly_sales, top_products,
                   dir_created, written>>

\* df = basic_clean(df_raw)
Clean ==
    /\ pc = "loaded"
    /\ df' = basic_clean(df)
    /\ pc' = "cleaned"
    /\ UNCHANGED <<file, err, content_read, kpis, desc, group_tables, monthly_sales,
                   top_products, dir_created, written>>

\* df = feature_engineering(df)
Features ==
    /\ pc = "cleaned"
    /\ df' = feature_engineering(df)
    /\ pc' = "derived"
    /\ UNCHANGED <<file, err, content_read, kpis, desc, group_tables, monthly_sales,
                   top_products, dir_created, written>>

\* kpis = compute_kpis(df)
Kpis ==
    /\ pc = "derived"
    /\ kpis' = compute_kpis(df)
    /\ pc' = "kpis"
    /\ UNCHANGED <<file, err, content_read, df, desc, group_tables, monthly_sales,
                   top_products, dir_created, written>>

\* desc_numeric, desc_categorical = describe_data(df)
Describe ==
    /\ pc = "kpis"
    /\ LET r == describe_data(df)
       IN  /\ desc' = r
           /\ err' = r.error
           /\ pc' = IF r.error # "" THEN "failed" ELSE "described"
    /\ UNCHANGED <<file, content_read, df, kpis, group_tables, monthly_sales,
                   top_products, dir_created, written>>

\* group_tables, monthly_sales, top_products = aggregates(df)
Aggregates ==
    /\ pc = "described"
    /\ \E cat \in GroupTableChoices(df, "Category"),
          sub \in GroupTableChoices(df, "Sub-Category"),
          reg \in GroupTableChoices(df, "Region"),
          st \in GroupTableChoices(df, "State") :
            group_tables' = GroupTables([dim \in Dims |->
                CASE dim = "Category" -> cat
                  [] dim = "Sub-Category" -> sub
                  [] dim = "Region" -> reg
                  [] dim = "State" -> st])
    /\ monthly_sales' \in MonthlySalesChoices(df)
    /\ top_products' \in TopProductsChoices(df)
    /\ pc' = "aggregated"
    /\ UNCHANGED <<file, err, content_read, df, kpis, desc, dir_created, written>>

\* the directory created before the input is loaded
Mkdir_BeforeLoad ==
    /\ pc = "start"
    /\ ~dir_created
    /\ dir_created' = TRUE
    /\ UNCHANGED <<file, pc, err, content_read, df, kpis, desc, group_tables,
                   monthly_sales, top_products, written>>

\* out_dir.mkdir(parents=True, exist_ok=True)
Mkdir ==
    /\ pc = "aggregated"
    /\ dir_created' = TRUE
    /\ pc' = "dir"
    /\ UNCHANGED <<file, err, content_read, df, kpis, desc, group_tables,
                   monthly_sales, top_products, written>>

\* charts(group_tables, monthly_sales, out_dir)
Charts ==
    /\ pc = "dir"
    /\ \E raises \in {FALSE, ChartsMayRaise(group_tables)} :
          /\ err' = IF raises THEN NoBars ELSE err
          /\ pc' = IF raises THEN "failed" ELSE "charted"
          /\ written' = IF raises THEN written
                        ELSE written \cup ChartFiles(group_tables, monthly_sales)
    /\ UNCHANGED <<file, content_read, df, kpis, desc, group_tables, monthly_sales,
                   top_products, dir_created>>

\* save_artifacts(df, kpis, desc_numeric, desc_categorical, group_tables,
\*                monthly_sales, top_products, out_dir)
Save ==
    /\ pc = "charted"
    /\ written' = written \cup SavedFiles(group_tables, monthly_sales, top_products)
    /\ pc' = "done"
    /\ UNCHANGED <<file, err, content_read, df, kpis, desc, group_tables,
                   monthly_sales, top_products, dir_created>>

Next ==
    \/ Load \/ Clean \/ Features \/ Kpis \/ Describe
    \/ Aggregates \/ Mkdir \/ Charts \/ Save

Spec == Init /\ [][Next]_vars

(***************************************************************************)
(* Running the cleaner on its own output                                    *)
(***************************************************************************)
\* df = basic_clean(df) once more, on the cleaned table
CleanAgain ==
    /\ pc = "cleaned"
    /\ df' = basic_clean(df)
    /\ pc' = "recleaned"
    /\ UNCHANGED <<file, err, content_read, kpis, desc, group_tables, monthly_sales,
                   top_products, dir_created, written>>

NextTwice == Load \/ Clean \/ CleanAgain

SpecTwice == Init /\ [][NextTwice]_vars

(***************************************************************************)
(* Properties                                                               *)
(***************************************************************************)
RowIds(t) == 1..Len(t.rows)

\* the sum of the integers f[i], i in ids
RECURSIVE SumOver(_, _)
SumOver(ids, f) ==
    IF ids = {} THEN 0
    ELSE LET i == CHOOSE x \in ids : TRUE IN f[i] + SumOver(ids \ {i}, f)

\* the total of column c over the rows of df whose index is in ids
Total(ids, c) == SumOver(ids, [i \in ids |-> df.rows[i][c].n])

\* the table the cleaner was given
Raw == load_data(file).table

AfterStage(stages) == pc \in stages

Derived == AfterStage({"derived", "kpis", "described", "aggregated", "dir", "charted", "done"})
       \/ (pc = "failed" /\ content_read)

Aggregated == AfterStage({"aggregated", "dir", "charted", "done"})
          \/ (pc = "failed" /\ dir_created)

\* the aggregate tables that exist: the group tables and the top products
AggregateTables ==
    {group_tables[name] : name \in DOMAIN group_tables}
    \cup (IF top_products.some THEN {top_products.rows} ELSE {})

\* m is Profit / Sales, or null when Sales is zero
MarginOk(m, profit, sales) ==
    IF sales.n = 0 THEN IsNull(m)
    ELSE m.k = "num" /\ m.d > 0 /\ m.n * sales.n = profit.n * m.d

\* C1: the table basic_clean returns has no row with a null Order Date, Sales
\* or Profit, whichever of these columns exist (a value that coercion turned
\* into null counts); when none of the three exists the rows are those left
\* by the removal of duplicates.
C1_NoMissingEssential ==
    pc = "cleaned" =>
        /\ \A i \in RowIds(df) :
              \A c \in {ORDER_DATE, SALES, PROFIT} \cap df.cols : df.rows[i][c].k # "nan"
        /\ {ORDER_DATE, SALES, PROFIT} \cap df.cols = {}
              => df.rows = Dedup(Coerced(Raw).rows)

C1_Witness ==
    /\ pc = "cleaned"
    /\ [name |-> "Sales", pad |-> TRUE] \in file.header
    /\ \E i \in 1..Len(file.rows) : file.rows[i][[name |-> "Sales", pad |-> TRUE]] = Junk
    /\ Len(df.rows) = 1
    /\ Len(file.rows) = 2

\* C2: wherever ProfitMargin is computed (the derived table, every group
\* table, the top-products table) it is null when the row's Sales is 0 and
\* Profit / Sales otherwise; it is never infinite.
C2_MarginGuarded ==
    /\ (Derived /\ PROFIT_MARGIN \in df.cols) =>
          \A i \in RowIds(df) :
              MarginOk(df.rows[i][PROFIT_MARGIN], df.rows[i][PROFIT], df.rows[i][SALES])
    /\ Aggregated =>
          \A rows \in AggregateTables : \A i \in 1..Len(rows) :
              MarginOk(rows[i].ProfitMargin, rows[i].Profit, rows[i].Sales)

C2_Witness ==
    /\ pc = "aggregated"
    /\ PROFIT_MARGIN \in df.cols
    /\ \E i \in RowIds(df) :
          df.rows[i][SALES].n = 0 /\ df.rows[i][PROFIT].n # 0
          /\ IsNull(df.rows[i][PROFIT_MARGIN])
    /\ \E name \in DOMAIN group_tables : \E j \in 1..Len(group_tables[name]) :
          group_tables[name][j].Sales.n = 0 /\ group_tables[name][j].Profit.n # 0
    /\ top_products.some
    /\ \E j \in 1..Len(top_products.rows) :
          top_products.rows[j].Sales.n = 0 /\ top_products.rows[j].Profit.n # 0

ConditionalFiles ==
    {"group_by_category.csv", "group_by_subcategory.csv", "group_by_region.csv",
     "group_by_state.csv", "monthly_sales.csv", "top10_products.csv"}

\* the in-memory artifact a conditional CSV is written from
Artifact(name) ==
    CASE name = "group_by_category.csv" ->
            IF "by_category" \in DOMAIN group_tables
            THEN Some(group_tables["by_category"]) ELSE None
      [] name = "group_by_subcategory.csv" ->
            IF "by_subcategory" \in DOMAIN group_tables
            THEN Some(group_tables["by_subcategory"]) ELSE None
      [] name = "group_by_region.csv" ->
            IF "by_region" \in DOMAIN group_tables
            THEN Some(group_tables["by_region"]) ELSE None
      [] name = "group_by_state.csv" ->
            IF "by_state" \in DOMAIN group_tables
            THEN Some(group_tables["by_state"]) ELSE None
      [] name = "monthly_sales.csv" -> monthly_sales
      [] name = "top10_products.csv" -> top_products

\* C3 as stated: a conditional CSV is written only if its artifact exists and
\* has at least one row.
C3_Original ==
    \A name \in ConditionalFiles :
        name \in written => Artifact(name).some /\ Len(Artifact(name).rows) > 0

\* C3, amended: a conditional CSV is written only if its artifact exists;
\* monthly_sales.csv and top10_products.csv only if it also has a row, while
\* a group table's CSV is written whether or not the table has rows.
C3_WrittenOnlyIfProduced ==
    /\ \A name \in ConditionalFiles : name \in written => Artifact(name).some
    /\ \A name \in {"monthly_sales.csv", "top10_products.csv"} :
          name \in written => Len(Artifact(name).rows) > 0
    /\ pc = "done" =>
          \A dim \in Dims :
              GroupName(dim) \in DOMAIN group_tables => GroupFile(GroupName(dim)) \in written

C3_Witness ==
    /\ pc = "done"
    /\ "by_region" \in DOMAIN group_tables
    /\ Len(group_tables["by_region"]) = 0
    /\ "group_by_region.csv" \in written
    /\ monthly_sales.some /\ Len(monthly_sales.rows) = 0
    /\ "monthly_sales.csv" \notin written
    /\ "group_by_state.csv" \notin written

UnsupportedSuffixes == {<<".", "t", "x", "t">>, <<".", "T", "X", "T">>, <<>>}

NothingProcessed ==
    /\ ~content_read
    /\ df = NoTable
    /\ kpis = <<>>
    /\ group_tables = <<>>
    /\ ~dir_created
    /\ written = {}

\* C4 as stated: a path whose extension is not .csv, .xlsx or .xls makes
\* load_data raise the unsupported-format error, before anything else is done.
C4_Original ==
    (file.suffix \in UnsupportedSuffixes /\ pc # "start") =>
        pc = "failed" /\ err = "ValueError: Unsupported file type" /\ NothingProcessed

\* C4, amended: a path that exists and whose extension is not .csv, .xlsx or
\* .xls (in any case) makes load_data raise the unsupported-format error, and
\* nothing is read, cleaned, aggregated, created or written.
C4_UnsupportedExisting ==
    (file.exists /\ file.suffix \in UnsupportedSuffixes /\ pc # "start") =>
        pc = "failed" /\ err = "ValueError: Unsupported file type" /\ NothingProcessed

C4_Witness ==
    /\ pc = "failed"
    /\ file.exists
    /\ file.suffix = <<".", "T", "X", "T">>
    /\ err = "ValueError: Unsupported file type"
    /\ Len(file.rows) = 1

\* C5: cleaning a cleaned table removes no row: each step from the cleaned
\* table to the table cleaned again keeps the number of rows.
C5_CleanTwiceSameCount ==
    [][(pc = "cleaned" /\ pc' = "recleaned") => Len(df'.rows) = Len(df.rows)]_vars

C5_Witness ==
    /\ pc = "recleaned"
    /\ Len(file.rows) = 2
    /\ Len(df.rows) = 1
    /\ file.rows[1] # file.rows[2]
    /\ \A c \in df.cols : ~IsNull(df.rows[1][c])

\* C6: compute_kpis has total_sales iff Sales exists, total_profit iff Profit
\* exists, overall_profit_margin iff both exist and the Sales total is not 0,
\* date_range iff Order Date exists with a value; the values are the totals,
\* their quotient, and the least and greatest Order Date as YYYY-MM-DD.
C6_KpiKeysAndValues ==
    AfterStage({"kpis", "described", "aggregated", "dir", "charted", "done"}) =>
        LET ids == RowIds(df)
            dated == IF ORDER_DATE \in df.cols
                     THEN {i \in ids : df.rows[i][ORDER_DATE].k = "date"}
                     ELSE {}
        IN  /\ "total_sales" \in DOMAIN kpis <=> SALES \in df.cols
            /\ "total_profit" \in DOMAIN kpis <=> PROFIT \in df.cols
            /\ "overall_profit_margin" \in DOMAIN kpis
                  <=> ({SALES, PROFIT} \subseteq df.cols /\ Total(ids, SALES) # 0)
            /\ "date_range" \in DOMAIN kpis
                  <=> (ORDER_DATE \in df.cols /\ dated # {})
            /\ "total_sales" \in DOMAIN kpis
                  => kpis["total_sales"] = Num(Total(ids, SALES))
            /\ "total_profit" \in DOMAIN kpis
                  => kpis["total_profit"] = Num(Total(ids, PROFIT))
            /\ "overall_profit_margin" \in DOMAIN kpis
                  => /\ kpis["overall_profit_margin"].k = "num"
                     /\ kpis["overall_profit_margin"].n * Total(ids, SALES)
                           = Total(ids, PROFIT) * kpis["overall_profit_margin"].d
            /\ "date_range" \in DOMAIN kpis
                  => /\ IsDateText(kpis["date_range"].min)
                     /\ IsDateText(kpis["date_range"].max)
                     /\ \E i \in dated : df.rows[i][ORDER_DATE].n = DateValue(kpis["date_range"].min)
                     /\ \E i \in dated : df.rows[i][ORDER_DATE].n = DateValue(kpis["date_range"].max)
                     /\ \A i \in dated :
                           /\ DateValue(kpis["date_range"].min) <= df.rows[i][ORDER_DATE].n
                           /\ df.rows[i][ORDER_DATE].n <= DateValue(kpis["date_range"].max)

\* the rows with Sales 100 and 50 and Profit 20 and -10
C6_Witness ==
    /\ pc = "kpis"
    /\ Len(df.rows) = 2
    /\ DOMAIN kpis = {"total_sales", "total_profit", "overall_profit_margin", "date_range"}
    /\ kpis["total_sales"].n = 150
    /\ kpis["total_profit"].n = 10
    /\ kpis["overall_profit_margin"].n = 1 /\ kpis["overall_profit_margin"].d = 15
    /\ kpis["date_range"].min = Jan05
    /\ kpis["date_range"].max = Jan20

\* the rows of df whose column c holds the value key
Members(c, key) == {i \in RowIds(df) : df.rows[i][c] = key}

\* the values of column c in df, null not being a value
Values(c) == {df.rows[i][c] : i \in RowIds(df)} \ {NaN}

Keys(rows) == {rows[i].key : i \in 1..Len(rows)}

\* rows holds one row for each of its keys, with the Sales and Profit totals
\* of that key's rows of df, in descending order of Sales
SummedAndSorted(rows, c) ==
    /\ \A i, j \in 1..Len(rows) : i # j => rows[i].key # rows[j].key
    /\ \A i \in 1..Len(rows) :
          /\ rows[i].key \in Values(c)
          /\ rows[i].Sales = Num(Total(Members(c, rows[i].key), SALES))
          /\ rows[i].Profit = Num(Total(Members(c, rows[i].key), PROFIT))
    /\ \A i \in 1..(Len(rows) - 1) : rows[i].Sales.n >= rows[i + 1].Sales.n

\* C7: the top-products table is the first min(10, number of products) rows
\* of the per-product totals sorted by Sales descending: at most 10 rows, and
\* no product left out has more Sales than a product in the table.
C7_TopProducts ==
    (Aggregated /\ top_products.some) =>
        LET top == top_products.rows
            products == Values(PRODUCT_NAME)
        IN  /\ Len(top) <= 10
            /\ Len(top) = IF Cardinality(products) < 10 THEN Cardinality(products) ELSE 10
            /\ SummedAndSorted(top, PRODUCT_NAME)
            /\ \A key \in products \ Keys(top) : \A i \in 1..Len(top) :
                  top[i].Sales.n >= Total(Members(PRODUCT_NAME, key), SALES)

C7_Witness ==
    /\ pc = "aggregated"
    /\ top_products.some
    /\ Len(top_products.rows) = 10
    /\ Cardinality(Values(PRODUCT_NAME)) > 10
    /\ df.rows[1][PRODUCT_NAME] \notin Keys(top_products.rows)

\* C8: a group table exists for a dimension iff the dimension, Sales and
\* Profit are all columns; it has one row for each value of the dimension,
\* with that value's Sales and Profit totals, in descending order of Sales.
C8_GroupTables ==
    Aggregated =>
        \A dim \in Dims :
            /\ GroupName(dim) \in DOMAIN group_tables
                  <=> {Col(dim), SALES, PROFIT} \subseteq df.cols
            /\ GroupName(dim) \in DOMAIN group_tables
                  => /\ SummedAndSorted(group_tables[GroupName(dim)], Col(dim))
                     /\ Keys(group_tables[GroupName(dim)]) = Values(Col(dim))

C8_Witness ==
    /\ pc = "aggregated"
    /\ DOMAIN group_tables = {"by_state"}
    /\ Len(group_tables["by_state"]) = 2
    /\ group_tables["by_state"][1].Sales.n > group_tables["by_state"][2].Sales.n
    /\ group_tables["by_state"][1].key = df.rows[2][Col("State")]

\* C9: the output directory is created only once loading and every in-memory
\* stage has succeeded, and before any file is written; a run whose load
\* fails ends without the directory and without a file; a run that ends
\* successfully has written the six unconditional files.
C9_StageOrder ==
    /\ written # {} => dir_created /\ pc \in {"charted", "done"}
    /\ written \ {"sales_by_category.png", "monthly_sales.png"} # {} => pc = "done"
    /\ dir_created =>
          /\ pc \in {"dir", "charted", "done", "failed"}
          /\ content_read
          /\ PROFIT_MARGIN \in df.cols <=> {SALES, PROFIT} \subseteq df.cols
          /\ "total_sales" \in DOMAIN kpis <=> SALES \in df.cols
          /\ desc.error = "" /\ DOMAIN desc.numeric # {}
          /\ pc = "failed" => err = "IndexError: index 0 is out of bounds for axis 0 with size 0"
    /\ (pc = "failed" /\ ~content_read) =>
          /\ err \in {"FileNotFoundError: Input file not found",
                      "ValueError: Unsupported file type"}
          /\ ~dir_created /\ written = {}
    /\ pc = "done" =>
          {"superstore_clean.csv", "desc_numeric.csv", "desc_categorical.csv",
           "kpi_summary.json", "data_dictionary.csv", "README.md"} \subseteq written

C9_Witness ==
    /\ pc = "done"
    /\ dir_created
    /\ "README.md" \in written
    /\ "sales_by_category.png" \in written
    /\ "monthly_sales.png" \in written
    /\ Len(df.rows) = 2

SumSales(rows) == SumOver(1..Len(rows), [i \in 1..Len(rows) |-> rows[i].Sales.n])

SumProfit(rows) == SumOver(1..Len(rows), [i \in 1..Len(rows) |-> rows[i].Profit.n])

\* C10 as stated: the Sales and the Profit of every group table add up to
\* the KPI totals.
C10_Original ==
    Aggregated =>
        \A name \in DOMAIN group_tables :
            /\ SumSales(group_tables[name]) = kpis["total_sales"].n
            /\ SumProfit(group_tables[name]) = kpis["total_profit"].n

\* C10, amended: the Sales and the Profit of a group table add up to the KPI
\* totals less the rows of df whose dimension value is null; a dimension
\* column of text has no null (a missing value is the group "nan"), so its
\* table adds up to the KPI totals, rows with Sales 0 included.
C10_GroupTotals ==
    Aggregated =>
        \A dim \in Dims :
            GroupName(dim) \in DOMAIN group_tables =>
                LET rows == group_tables[GroupName(dim)]
                    nulls == Members(Col(dim), NaN)
                IN  /\ SumSales(rows) = kpis["total_sales"].n - Total(nulls, SALES)
                    /\ SumProfit(rows) = kpis["total_profit"].n - Total(nulls, PROFIT)
                    /\ df.dtype[Col(dim)] = "object" => nulls = {}

C10_Witness ==
    /\ pc = "aggregated"
    /\ "by_category" \in DOMAIN group_tables
    /\ Col("Category") \in file.header
    /\ \E j \in 1..Len(file.rows) : file.rows[j][Col("Category")] = Missing
    /\ \E i \in RowIds(df) : df.rows[i][Col("Category")] = Text(<<"n", "a", "n">>)
    /\ \E i \in RowIds(df) : df.rows[i][SALES].n = 0 /\ df.rows[i][PROFIT].n # 0
    /\ Len(df.rows) = 2
    /\ SumProfit(group_tables["by_category"]) = kpis["total_profit"].n

====
